---- MODULE Spec2Model ----
(***************************************************************************)
(* A model of iconfig: the key index (keyindex.py), the access facade      *)
(* (iconfig.py) and the helpers of utils.py.                               *)
(*                                                                         *)
(* Strings are sequences of one-character strings, so that str.split,      *)
(* "in" on strings and os.path.expandvars are computed, not assumed.       *)
(* A Python value (a YAML tree) is a function from paths (sequences of     *)
(* mapping keys or list positions) to node labels [t, s]:                  *)
(*   t = "map" | "seq" | "str" | "int" | "none",  s = the text of a str    *)
(* or of an int; the root is at the empty path.                            *)
(***************************************************************************)
EXTENDS Integers, Sequences, FiniteSets, TLC

VARIABLES env, inst, fs, sidecar, ki, cfg, nsets, pc, call, ret

vars == <<env, inst, fs, sidecar, ki, cfg, nsets, pc, call, ret>>

(***************************************************************************)
(* Bounds of the model.                                                    *)
(***************************************************************************)
MaxKeySegs == 2
MaxPathLen == 1
MaxLevel == 1
MaxDepth == 1
MaxSets == 1
MaxMtime == 2
MaxInstances == 3

(***************************************************************************)
(* Strings.                                                                *)
(***************************************************************************)
Range(f) == {f[i] : i \in DOMAIN f}

SeqsUpTo(S, lo, hi) == UNION {[1..n -> S] : n \in lo..hi}

IsPrefix(p, x) == Len(p) <= Len(x) /\ SubSeq(x, 1, Len(p)) = p

\* sub in s, for Python strings
IsSubstring(sub, s) ==
    \E i \in 0..(Len(s) - Len(sub)) : SubSeq(s, i + 1, i + Len(sub)) = sub

\* c in s, for a one-character separator c
HasChar(c, s) == \E i \in 1..Len(s) : s[i] = c

\* s.split(c): the pieces of s between the occurrences of c
RECURSIVE split(_, _)
split(s, c) ==
    IF ~HasChar(c, s) THEN <<s>>
    ELSE LET i == CHOOSE j \in 1..Len(s) :
                      s[j] = c /\ \A m \in 1..(j - 1) : s[m] # c
         IN  <<SubSeq(s, 1, i - 1)>> \o split(SubSeq(s, i + 1, Len(s)), c)

\* c.join(parts)
RECURSIVE join(_, _)
join(parts, c) ==
    IF parts = <<>> THEN <<>>
    ELSE IF Len(parts) = 1 THEN parts[1]
    ELSE parts[1] \o <<c>> \o join(Tail(parts), c)

Front(s) == SubSeq(s, 1, Len(s) - 1)

Last(s) == s[Len(s)]

(***************************************************************************)
(* Python values as trees.                                                 *)
(***************************************************************************)
Label(t, s) == [t |-> t, s |-> s]

Scalar(t, s) == [p \in {<<>>} |-> Label(t, s)]

PyStr(s) == Scalar("str", s)

PyInt(s) == Scalar("int", s)

PyNone == Scalar("none", <<>>)

PyTrue == Scalar("bool", <<"True">>)

PyFalse == Scalar("bool", <<"False">>)

\* a node with the given label and the children ch (child name -> tree)
Node(lbl, ch) ==
    [p \in {<<>>} \cup UNION {{<<n>> \o q : q \in DOMAIN ch[n]} : n \in DOMAIN ch}
       |-> IF p = <<>> THEN lbl ELSE ch[Head(p)][Tail(p)]]

\* a dict literal
Map(ch) == Node(Label("map", <<>>), ch)

EmptyMap == Scalar("map", <<>>)

\* the name of the i-th position of a list
ItemName(i) == <<(<<"0", "1", "2", "3">>)[i]>>

\* a list literal
List(items) ==
    Node(Label("seq", <<>>), [n \in {ItemName(i) : i \in DOMAIN items} |->
             items[CHOOSE i \in DOMAIN items : ItemName(i) = n]])

\* the value at path p of v
Sub(v, p) ==
    [q \in {SubSeq(x, Len(p) + 1, Len(x)) : x \in {y \in DOMAIN v : IsPrefix(p, y)}}
       |-> v[p \o q]]

\* the child names of the node at p
Keys(v, p) ==
    {x[Len(p) + 1] : x \in {y \in DOMAIN v : Len(y) = Len(p) + 1 /\ IsPrefix(p, y)}}

\* v with the value at path `at` (and all below it) replaced by w
Assign(v, at, w) ==
    [x \in {y \in DOMAIN v : ~IsPrefix(at, y)} \cup {at \o q : q \in DOMAIN w}
       |-> IF IsPrefix(at, x) THEN w[SubSeq(x, Len(at) + 1, Len(x))] ELSE v[x]]

\* isinstance(v[p], dict)
IsDict(v, p) == v[p].t = "map"

\* `x in container` for a str x: "yes", "no", or a TypeError for a container
\* that is not iterable
PyIn(x, v, p) ==
    CASE v[p].t = "map" -> IF x \in Keys(v, p) THEN "yes" ELSE "no"
      [] v[p].t = "seq" ->
            IF \E n \in Keys(v, p) : v[p \o <<n>>] = Label("str", x)
            THEN "yes" ELSE "no"
      [] v[p].t = "str" -> IF IsSubstring(x, v[p].s) THEN "yes" ELSE "no"
      [] OTHER -> "TypeError"

(***************************************************************************)
(* os.path.expandvars and iConfig.expand_env.                              *)
(***************************************************************************)
\* the process environment: H=hm
Environ == (<<"H">> :> <<"h", "m">>)

\* characters that are not \w
NonWord == {"$", "{", "}", "/", ".", " "}

\* the length of the longest run of \w characters at the head of s
RECURSIVE WordLen(_)
WordLen(s) == IF s = <<>> \/ s[1] \in NonWord THEN 0 ELSE 1 + WordLen(Tail(s))

\* posixpath.expandvars: $NAME and ${NAME} are replaced by the variable's
\* value when NAME is set, and left as they are otherwise
RECURSIVE expandvars(_)
expandvars(s) ==
    IF ~HasChar("$", s) THEN s
    ELSE LET i    == CHOOSE j \in 1..Len(s) :
                         s[j] = "$" /\ \A m \in 1..(j - 1) : s[m] # "$"
             rest == SubSeq(s, i + 1, Len(s))
             pre  == SubSeq(s, 1, i - 1)
             wl   == WordLen(rest)
             braced == /\ rest # <<>>
                       /\ rest[1] = "{"
                       /\ HasChar("}", rest)
             close == CHOOSE j \in 1..Len(rest) :
                         rest[j] = "}" /\ \A m \in 1..(j - 1) : rest[m] # "}"
             name == IF wl > 0 THEN SubSeq(rest, 1, wl)
                     ELSE SubSeq(rest, 2, close - 1)
             used == IF wl > 0 THEN wl ELSE close
         IN  IF wl = 0 /\ ~braced
             THEN pre \o <<"$">> \o expandvars(rest)
             ELSE pre
                  \o (IF name \in DOMAIN Environ THEN Environ[name]
                      ELSE <<"$">> \o SubSeq(rest, 1, used))
                  \o expandvars(SubSeq(rest, used + 1, Len(rest)))

\* iConfig.expand_env: strings are expanded, lists and dicts recursively
\* (dict keys are not), everything else is returned as it is
expand_env(obj) ==
    [p \in DOMAIN obj |->
        IF obj[p].t = "str" THEN Label("str", expandvars(obj[p].s)) ELSE obj[p]]

(***************************************************************************)
(* Names, files and documents of the modelled configuration directories.   *)
(***************************************************************************)
nA == <<"a">>

nB == <<"b">>

nK == <<"k">>

nZ == <<"z">>

nIconfig == <<"i", "c", "o", "n", "f", "i", "g">>

nSingleton == <<"s", "i", "n", "g", "l", "e", "t", "o", "n">>

\* the names of the mapping keys of the documents
Names == {nA, nB, nK}

\* the order in which the keys of a mapping are written in a file
DocKeyOrder == <<nA, nB, nK, nIconfig, nSingleton>>

\* dict_refs: the path of a file relative to the root, as its components
RootYaml == <<"r.yaml">>

TopYaml == <<"t.yaml">>

SubYaml == <<"d", "s.yaml">>

DictRefs == {RootYaml, TopYaml, SubYaml}

(***************************************************************************)
(* utils.py                                                                *)
(***************************************************************************)
\* the files in the order rglob yields them (order: a sequence of the
\* existing dict_refs), each with file_path, mtime and level
discover_config_files(files, order) ==
    [d \in Range(order) |->
        [file_path |-> d, mtime |-> files[d].mtime, level |-> Len(d) - 1]]

\* _load_config: the parsed document, or the exception raised
_load_config(dict_ref, files, disk) ==
    IF dict_ref \notin DOMAIN files
    THEN [exc |-> "TypeError", doc |-> PyNone]
    ELSE IF files[dict_ref].file_path \notin DOMAIN disk
    THEN [exc |-> "FileNotFoundError", doc |-> PyNone]
    ELSE IF disk[files[dict_ref].file_path].bad
    THEN [exc |-> "YAMLError", doc |-> PyNone]
    ELSE [exc |-> "", doc |-> disk[files[dict_ref].file_path].doc]

(***************************************************************************)
(* keyindex.py: building the index                                         *)
(***************************************************************************)
_is_same_entry(entry1, entry2) ==
    /\ entry1.level = entry2.level
    /\ entry1.depth = entry2.depth
    /\ entry1.dict_ref = entry2.dict_ref
    /\ entry1.path = entry2.path

has_entry(entry, list_of_entries) ==
    \E i \in DOMAIN list_of_entries : _is_same_entry(entry, list_of_entries[i])

\* an add that appends the entry whatever the sequence holds
add_Always(index, key, level, depth, dict_ref, path) ==
    LET newentry == [level |-> level, depth |-> depth,
                     dict_ref |-> dict_ref, path |-> path]
    IN  IF key \notin DOMAIN index THEN index @@ (key :> <<newentry>>)
        ELSE [index EXCEPT ![key] = Append(@, newentry)]

\* KeyIndex.add, on the index (key -> sequence of entries)
add(index, key, level, depth, dict_ref, path) ==
    LET newentry == [level |-> level, depth |-> depth,
                     dict_ref |-> dict_ref, path |-> path]
    IN  IF key \notin DOMAIN index THEN index @@ (key :> <<newentry>>)
        ELSE IF ~has_entry(newentry, index[key])
        THEN [index EXCEPT ![key] = Append(@, newentry)]
        ELSE index

\* sub_cfg.items(): the keys of the mapping at p, in document order
items(doc, p) == SelectSeq(DocKeyOrder, LAMBDA n : n \in Keys(doc, p))

\* a recurse that indexes the keys of a mapping and does not go below them
RECURSIVE recurse_Shallow(_, _, _, _, _, _)
recurse_Shallow(index, doc, dict_ref, level, current_path, todo) ==
    IF todo = <<>> THEN index
    ELSE recurse_Shallow(add(index, Head(todo), level, Len(current_path),
                             dict_ref, current_path),
                         doc, dict_ref, level, current_path, Tail(todo))

\* recurse() of _index_config, over the keys `todo` left at current_path
RECURSIVE recurse(_, _, _, _, _, _)
recurse(index, doc, dict_ref, level, current_path, todo) ==
    IF todo = <<>> THEN index
    ELSE LET key   == Head(todo)
             added == add(index, key, level, Len(current_path),
                          dict_ref, current_path)
             below == IF IsDict(doc, current_path \o <<key>>)
                      THEN recurse(added, doc, dict_ref, level,
                                   current_path \o <<key>>,
                                   items(doc, current_path \o <<key>>))
                      ELSE added
         IN  recurse(below, doc, dict_ref, level, current_path, Tail(todo))

_index_config(index, files, cfgdoc, dict_ref) ==
    recurse(index, cfgdoc, dict_ref, files[dict_ref].level, <<>>,
            items(cfgdoc, <<>>))

\* `if cfg:` for a loaded document
Truthy(doc) ==
    CASE doc[<<>>].t \in {"map", "seq"} -> Keys(doc, <<>>) # {}
      [] doc[<<>>].t = "str" -> doc[<<>>].s # <<>>
      [] doc[<<>>].t = "int" -> doc[<<>>].s # <<"0">>
      [] doc[<<>>].t = "bool" -> doc[<<>>].s = <<"True">>
      [] OTHER -> FALSE

\* the loop of _build over the files left in `todo`: [exc, index].  A file
\* that does not load is skipped (lines 380-384); a document that is truthy
\* and no mapping has no items(), and the AttributeError of line 420 ends
\* the loop outside the try
RECURSIVE BuildLoop(_, _, _, _)
BuildLoop(index, files, disk, todo) ==
    IF todo = <<>> THEN [exc |-> "", index |-> index]
    ELSE LET dict_ref == Head(todo)
             loaded   == _load_config(dict_ref, files, disk)
         IN  IF loaded.exc # "" \/ ~Truthy(loaded.doc)
             THEN BuildLoop(index, files, disk, Tail(todo))
             ELSE IF ~IsDict(loaded.doc, <<>>)
             THEN [exc |-> "AttributeError", index |-> index]
             ELSE BuildLoop(_index_config(index, files, loaded.doc, dict_ref),
                            files, disk, Tail(todo))

\* _build on a KeyIndex k = [index, files]: the KeyIndex when _build ends
_build(k, disk, order) ==
    LET files == discover_config_files(disk, order)
    IN  [index |-> BuildLoop(k.index, files, disk, order).index,
         files |-> files]

\* the exception that _build raises, "" when it returns
_build_exc(k, disk, order) ==
    BuildLoop(k.index, discover_config_files(disk, order), disk, order).exc

_save(k) == [st |-> "ok", index |-> k.index, files |-> k.files]

\* a freshness check that does not look for removed files
rebuild_needed_IgnoresRemoved(k, disk, order) ==
    LET files == discover_config_files(disk, order)
    IN  \E d \in DOMAIN files :
            \/ d \notin DOMAIN k.files
            \/ files[d].mtime # k.files[d].mtime

\* the decision of _update
rebuild_needed(k, disk, order) ==
    LET files == discover_config_files(disk, order)
    IN  \/ \E d \in DOMAIN files :
              \/ d \notin DOMAIN k.files
              \/ files[d].mtime # k.files[d].mtime
        \/ DOMAIN k.files # DOMAIN files

\* KeyIndex.__init__ (load_index = True): [k, side], the KeyIndex and the
\* sidecar file it leaves
EmptyIndex == [index |-> <<>>, files |-> <<>>]

NoSidecar == [st |-> "none", index |-> <<>>, files |-> <<>>]

\* self._build() with its trailing _save(): [exc, k, side]; the sidecar is
\* written when the loop has ended without a raise
Built(ks, disk, order) ==
    LET built == _build(ks.k, disk, order)
        exc   == _build_exc(ks.k, disk, order)
    IN  [exc |-> exc, k |-> built,
         side |-> IF exc = "" THEN _save(built) ELSE ks.side]

_update(ks, disk, order) ==
    IF rebuild_needed(ks.k, disk, order) THEN Built(ks, disk, order) ELSE ks

\* a load that takes the index and the records of a damaged sidecar as read
_load_TrustsDamaged(ks, disk, order) ==
    IF ks.side.st = "none" THEN Built(ks, disk, order)
    ELSE _update([exc |-> "",
                  k |-> [index |-> ks.side.index, files |-> ks.side.files],
                  side |-> [ks.side EXCEPT !.st = "ok"]], disk, order)

_load(ks, disk, order) ==
    IF ks.side.st = "none" THEN Built(ks, disk, order)
    ELSE IF ks.side.st = "ok"
    THEN _update([exc |-> "",
                  k |-> [index |-> ks.side.index, files |-> ks.side.files],
                  side |-> ks.side], disk, order)
    ELSE LET b == Built(ks, disk, order)
         IN  IF b.exc # "" THEN b ELSE _update(b, disk, order)

KeyIndex(side, disk, order, force_rebuild) ==
    LET new    == [exc |-> "", k |-> EmptyIndex, side |-> side]
        forced == IF force_rebuild THEN Built(new, disk, order) ELSE new
    IN  IF forced.exc # "" THEN forced ELSE _load(forced, disk, order)

(***************************************************************************)
(* The environment of the process: the two variables that name the         *)
(* configuration root, and the directories that exist.  fs and sidecar are *)
(* the files and the sidecar of the directory the KeyIndex resolves.       *)
(***************************************************************************)
Unset == "unset"

DefaultDir == "config"

OtherDir == "etc"

\* os.getenv(name, default)
getenv(e, name, default) == IF e[name] = Unset THEN default ELSE e[name]

Envs ==
    [INCONFIG_HOME : {Unset, DefaultDir, OtherDir},
     ICONFIG_HOME : {Unset, DefaultDir, OtherDir},
     exists : SUBSET {DefaultDir, OtherDir}]

\* an environment in which both variables name the one directory that exists
SessionEnv ==
    [INCONFIG_HOME |-> OtherDir, ICONFIG_HOME |-> OtherDir,
     exists |-> {OtherDir}]

\* iconfig.py lines 134-135: the directory whose existence the facade checks
FacadeBase(e) == getenv(e, "INCONFIG_HOME", DefaultDir)

\* keyindex.py lines 113-119, config_home not given: the directory the
\* KeyIndex scans and writes its sidecar into
KeyIndexBase(e) == getenv(e, "ICONFIG_HOME", DefaultDir)

\* a construction that does not look whether the root exists
iConfig_init_Unchecked(e, side, disk, order, force_rebuild) ==
    IF KeyIndexBase(e) \notin e.exists
    THEN [exc |-> "FileNotFoundError", k |-> EmptyIndex, side |-> side]
    ELSE LET ks == KeyIndex(side, disk, order, force_rebuild)
         IN  [exc |-> ks.exc,
              k |-> IF ks.exc # "" THEN EmptyIndex ELSE ks.k,
              side |-> ks.side]

\* iConfig.__init__: [exc, k, side].  In a directory that does not exist
\* rglob finds no file and the open of _save (line 183) raises.
iConfig_init(e, side, disk, order, force_rebuild) ==
    IF FacadeBase(e) \notin e.exists
    THEN [exc |-> "FileNotFoundError", k |-> EmptyIndex, side |-> side]
    ELSE IF KeyIndexBase(e) \notin e.exists
    THEN [exc |-> "FileNotFoundError", k |-> EmptyIndex, side |-> side]
    ELSE LET ks == KeyIndex(side, disk, order, force_rebuild)
         IN  [exc |-> ks.exc,
              k |-> IF ks.exc # "" THEN EmptyIndex ELSE ks.k,
              side |-> ks.side]

(***************************************************************************)
(* The path argument of a call: None, a list, a str, or the tuple of the   *)
(* positional arguments.                                                   *)
(***************************************************************************)
PathNone == [kind |-> "none", segs |-> <<>>, s |-> <<>>]

PathList(segs) == [kind |-> "list", segs |-> segs, s |-> <<>>]

PathTuple(segs) == [kind |-> "tuple", segs |-> segs, s |-> <<>>]

PathStr(s) == [kind |-> "str", segs |-> <<>>, s |-> s]

\* bool(path)
PathTruthy(path) ==
    CASE path.kind = "none" -> FALSE
      [] path.kind = "str" -> path.s # <<>>
      [] OTHER -> path.segs # <<>>

\* utils.get_key_path: [exc, key, path]
get_key_path(key, path) ==
    IF HasChar(".", key)
    THEN LET parts      == split(key, ".")
             path_parts == Front(parts)
         IN  IF ~PathTruthy(path)
             THEN [exc |-> "", key |-> Last(parts), path |-> PathList(path_parts)]
             ELSE IF path.kind = "str"
             THEN [exc |-> "", key |-> Last(parts),
                   path |-> PathList(path_parts \o <<path.s>>)]
             ELSE IF path.kind = "list"
             THEN [exc |-> "", key |-> Last(parts),
                   path |-> PathList(path_parts \o path.segs)]
             ELSE [exc |-> "TypeError", key |-> Last(parts), path |-> path]
    ELSE [exc |-> "", key |-> key, path |-> path]

(***************************************************************************)
(* keyindex.py: KeyIndex._find, get and whereis                            *)
(***************************************************************************)
\* the result of a lookup: None, one entry, a list of entries, or a raise
FoundNone == [kind |-> "none", es |-> <<>>, exc |-> "", msg |-> <<>>]

FoundEntry(e) ==
    [kind |-> "entry", es |-> <<e>>, exc |-> "", msg |-> <<>>]

FoundList(es) == [kind |-> "list", es |-> es, exc |-> "", msg |-> <<>>]

FoundRaise(exc, es) ==
    [kind |-> "raise", es |-> es, exc |-> exc, msg |-> <<>>]

\* str(n) for n >= 0
RECURSIVE str(_)
str(n) ==
    LET digit == <<"0", "1", "2", "3", "4", "5", "6", "7", "8", "9">>
    IN  IF n < 10 THEN <<digit[n + 1]>>
        ELSE str(n \div 10) \o <<digit[(n % 10) + 1]>>

\* lines 343-351: the message of the KeyError that is raised for a tie; the
\* string msg of lines 344-347, which lists the paths, is built and dropped
AmbiguityMessage(key, entries) ==
    <<"A", "m", "b", "i", "g", "u", "o", "u", "s", " ", "k", "e", "y", " ", "'">>
        \o key \o <<"'", ":", " ">> \o str(Len(entries))
        \o <<" ", "e", "n", "t", "r", "i", "e", "s", " ", "a", "t", " ", "s", "a", "m", "e", " ", "l", "e", "v", "e", "l", "/", "d", "e", "p", "t", "h">>

FoundAmbiguous(key, entries) ==
    [kind |-> "raise", es |-> entries, exc |-> "KeyError:ambiguous",
     msg |-> AmbiguityMessage(key, entries)]

\* the segments _find iterates over for a truthy path
PathSegments(path) ==
    IF path.kind = "str"
    THEN IF HasChar("/", path.s) THEN split(path.s, "/") ELSE <<path.s>>
    ELSE path.segs

\* a path filter that has to be the beginning of the path of the entry
FilterPath_Prefix(entries, path) ==
    IF PathTruthy(path)
    THEN SelectSeq(entries, LAMBDA e : IsPrefix(PathSegments(path), e.path))
    ELSE entries

\* lines 304-318: the entries whose path holds every segment of the filter
FilterPath(entries, path) ==
    IF PathTruthy(path)
    THEN SelectSeq(entries, LAMBDA e :
             \A i \in DOMAIN PathSegments(path) :
                 PathSegments(path)[i] \in Range(e.path))
    ELSE entries

MaxOf(S) == CHOOSE x \in S : \A y \in S : y <= x

MinOf(S) == CHOOSE x \in S : \A y \in S : x <= y

\* a level filter under which the file nearest to the root wins
FilterLevel_Lowest(entries, level) ==
    IF level >= 0 THEN SelectSeq(entries, LAMBDA e : e.level = level)
    ELSE LET best_level == MinOf({entries[i].level : i \in DOMAIN entries})
         IN  SelectSeq(entries, LAMBDA e : e.level = best_level)

\* lines 319-327
FilterLevel(entries, level) ==
    IF level >= 0 THEN SelectSeq(entries, LAMBDA e : e.level = level)
    ELSE LET best_level == MaxOf({entries[i].level : i \in DOMAIN entries})
         IN  SelectSeq(entries, LAMBDA e : e.level = best_level)

\* a depth filter under which the most nested definition wins
FilterDepth_Deepest(entries, depth) ==
    IF depth >= 0 THEN SelectSeq(entries, LAMBDA e : e.depth = depth)
    ELSE LET best_depth == MaxOf({entries[i].depth : i \in DOMAIN entries})
         IN  SelectSeq(entries, LAMBDA e : e.depth = best_depth)

\* lines 329-336
FilterDepth(entries, depth) ==
    IF depth >= 0 THEN SelectSeq(entries, LAMBDA e : e.depth = depth)
    ELSE LET best_depth == MinOf({entries[i].depth : i \in DOMAIN entries})
         IN  SelectSeq(entries, LAMBDA e : e.depth = best_depth)

\* a final step in which return_all goes before forcefirst
Disambiguate_AllBeforeFirst(key, entries, forcefirst, return_all) ==
    IF Len(entries) = 1 THEN FoundEntry(entries[1])
    ELSE IF return_all THEN FoundList(entries)
    ELSE IF forcefirst /\ entries # <<>> THEN FoundEntry(entries[1])
    ELSE FoundAmbiguous(key, entries)

\* lines 338-351
Disambiguate(key, entries, forcefirst, return_all) ==
    IF Len(entries) = 1 THEN FoundEntry(entries[1])
    ELSE IF forcefirst /\ entries # <<>> THEN FoundEntry(entries[1])
    ELSE IF return_all THEN FoundList(entries)
    ELSE FoundAmbiguous(key, entries)

\* a resolver for which an explicit depth that matches nothing is NotFound
_find_SilentDepth(index, key0, path0, level, depth, forcefirst, return_all) ==
    LET kp == get_key_path(key0, path0)
    IN  IF kp.exc # "" THEN FoundRaise(kp.exc, <<>>)
        ELSE IF kp.key \notin DOMAIN index THEN FoundNone
        ELSE LET byPath == FilterPath(index[kp.key], kp.path)
             IN  IF byPath = <<>> THEN FoundNone
                 ELSE LET byLevel == FilterLevel(byPath, level)
                      IN  IF byLevel = <<>> THEN FoundNone
                          ELSE LET byDepth == FilterDepth(byLevel, depth)
                               IN  IF byDepth = <<>> THEN FoundNone
                                   ELSE Disambiguate(kp.key, byDepth,
                                                     forcefirst, return_all)

_find(index, key0, path0, level, depth, forcefirst, return_all) ==
    LET kp == get_key_path(key0, path0)
    IN  IF kp.exc # "" THEN FoundRaise(kp.exc, <<>>)
        ELSE IF kp.key \notin DOMAIN index THEN FoundNone
        ELSE LET byPath == FilterPath(index[kp.key], kp.path)
             IN  IF byPath = <<>> THEN FoundNone
                 ELSE LET byLevel == FilterLevel(byPath, level)
                      IN  IF byLevel = <<>> THEN FoundNone
                          ELSE LET byDepth == FilterDepth(byLevel, depth)
                               IN  IF byDepth = <<>>
                                   THEN FoundRaise("KeyError:depth", <<>>)
                                   ELSE Disambiguate(kp.key, byDepth,
                                                     forcefirst, return_all)

\* KeyIndex.get
KeyIndex_get(index, key0, path0, level, depth, forcefirst) ==
    LET kp == get_key_path(key0, path0)
    IN  IF kp.exc # "" THEN FoundRaise(kp.exc, <<>>)
        ELSE _find(index, kp.key, kp.path, level, depth, forcefirst, FALSE)

\* KeyIndex.whereis: the list of {level, path} records, or None (<<>>)
KeyIndex_whereis(index, key0, path0, level, depth) ==
    _find(index, key0, path0, level, depth, FALSE, TRUE)

WhereRecords(found) ==
    [i \in DOMAIN found.es |->
        [level |-> found.es[i].level, path |-> found.es[i].path]]

(***************************************************************************)
(* iconfig.py: the facade                                                  *)
(***************************************************************************)
\* _get_nested: the place (a path of the document) the walk ends at, or the
\* TypeError of `p in current` / `current[p]` on a value that is no mapping
RECURSIVE _get_nested(_, _, _)
_get_nested(data, current, path) ==
    IF path = <<>> THEN [exc |-> "", at |-> current]
    ELSE LET p   == Head(path)
             has == PyIn(p, data, current)
         IN  IF has = "TypeError" THEN [exc |-> "TypeError", at |-> current]
             ELSE IF has = "no" THEN _get_nested(data, current, Tail(path))
             ELSE IF ~IsDict(data, current)
             THEN [exc |-> "TypeError", at |-> current]
             ELSE _get_nested(data, current \o <<p>>, Tail(path))

\* a lazy load that reads the file again at every access
LazyLoad_Rereads(cache, files, disk, dict_ref) ==
    LET loaded == _load_config(dict_ref, files, disk)
    IN  IF loaded.exc # "" THEN [exc |-> "RuntimeError", cfg |-> cache]
        ELSE [exc |-> "",
              cfg |-> [x \in DOMAIN cache \cup {dict_ref} |->
                          IF x = dict_ref THEN loaded.doc ELSE cache[x]]]

\* the cache after the lazy load of dict_ref: [exc, cfg]
LazyLoad(cache, files, disk, dict_ref) ==
    IF dict_ref \in DOMAIN cache THEN [exc |-> "", cfg |-> cache]
    ELSE LET loaded == _load_config(dict_ref, files, disk)
         IN  IF loaded.exc # "" THEN [exc |-> "RuntimeError", cfg |-> cache]
             ELSE [exc |-> "", cfg |-> cache @@ (dict_ref :> loaded.doc)]

\* _lookup: [exc, cfg, val]
_lookup(cache, files, disk, key, entry, default) ==
    LET ll == LazyLoad(cache, files, disk, entry.dict_ref)
    IN  IF ll.exc # "" THEN [exc |-> ll.exc, cfg |-> ll.cfg, val |-> PyNone]
        ELSE LET data   == ll.cfg[entry.dict_ref]
                 nested == _get_nested(data, <<>>, entry.path)
                 has    == PyIn(key, data, nested.at)
             IN  IF nested.exc # "" \/ has = "TypeError"
                    \/ (has = "yes" /\ ~IsDict(data, nested.at))
                 THEN [exc |-> "TypeError", cfg |-> ll.cfg, val |-> PyNone]
                 ELSE IF has = "yes"
                 THEN [exc |-> "", cfg |-> ll.cfg,
                       val |-> expand_env(Sub(data, nested.at \o <<key>>))]
                 ELSE [exc |-> "", cfg |-> ll.cfg, val |-> expand_env(default)]

\* a set that stores the value at the root of the document
_set_nested_AtRoot(data, current, path, key, value) ==
    Assign(data, <<key>>, value)

\* a walk that puts an empty mapping at every segment of the path, also where
\* a mapping already stands
RECURSIVE _set_nested_Afresh(_, _, _, _, _)
_set_nested_Afresh(data, current, path, key, value) ==
    IF path = <<>> THEN Assign(data, current \o <<key>>, value)
    ELSE LET at == current \o <<Head(path)>>
         IN  _set_nested_Afresh(Assign(data, at, EmptyMap), at, Tail(path),
                                key, value)

\* _set_nested on a document whose root is a mapping
RECURSIVE _set_nested(_, _, _, _, _)
_set_nested(data, current, path, key, value) ==
    IF path = <<>> THEN Assign(data, current \o <<key>>, value)
    ELSE LET p  == Head(path)
             at == current \o <<p>>
         IN  IF p \notin Keys(data, current) \/ ~IsDict(data, at)
             THEN _set_nested(Assign(data, at, EmptyMap), at, Tail(path),
                              key, value)
             ELSE _set_nested(data, at, Tail(path), key, value)

\* _update_nested: [exc, cfg]
_update_nested(cache, files, disk, key, entry, value) ==
    LET ll == LazyLoad(cache, files, disk, entry.dict_ref)
    IN  IF ll.exc # "" THEN ll
        ELSE IF ~IsDict(ll.cfg[entry.dict_ref], <<>>)
        THEN [exc |-> "TypeError", cfg |-> ll.cfg]
        ELSE [exc |-> "",
              cfg |-> [ll.cfg EXCEPT ![entry.dict_ref] =
                          _set_nested(@, <<>>, entry.path, key, value)]]

\* what a call leaves: the result handed to the caller and the new cache
Returned(val, found, cache) ==
    [kind |-> "value", exc |-> "", val |-> val, where |-> <<>>,
     found |-> found, cfg |-> cache]

ReturnedList(where, found, cache) ==
    [kind |-> "where", exc |-> "", val |-> PyNone, where |-> where,
     found |-> found, cfg |-> cache]

Raised(exc, found, cache) ==
    [kind |-> "raise", exc |-> exc, val |-> PyNone, where |-> <<>>,
     found |-> found, cfg |-> cache]

\* the exception class of a raise of the KeyIndex
ExcClass(exc) == IF exc = "TypeError" THEN "TypeError" ELSE "KeyError"

\* iConfig.get
iConfig_get(k, cache, disk, c) ==
    LET kp == get_key_path(c.key, c.path)
    IN  IF kp.exc # "" THEN Raised(kp.exc, FoundRaise(kp.exc, <<>>), cache)
        ELSE LET found == KeyIndex_get(k.index, kp.key, kp.path, c.level,
                                       c.depth, c.forcefirst)
             IN  IF found.kind = "raise"
                 THEN Raised(ExcClass(found.exc), found, cache)
                 ELSE IF found.kind = "none"
                 THEN Returned(c.default, found, cache)
                 ELSE LET r == _lookup(cache, k.files, disk, kp.key,
                                       found.es[1], c.default)
                      IN  IF r.exc # "" THEN Raised(r.exc, found, r.cfg)
                          ELSE Returned(r.val, found, r.cfg)

\* iConfig.set
iConfig_set(k, cache, disk, c) ==
    LET kp == get_key_path(c.key, c.path)
    IN  IF kp.exc # "" THEN Raised(kp.exc, FoundRaise(kp.exc, <<>>), cache)
        ELSE LET found == KeyIndex_get(k.index, kp.key, kp.path, c.level,
                                       c.depth, c.forcefirst)
             IN  IF found.kind = "raise"
                 THEN Raised(ExcClass(found.exc), found, cache)
                 ELSE IF found.kind = "none"
                 THEN Returned(PyNone, found, cache)
                 ELSE LET r == _update_nested(cache, k.files, disk, kp.key,
                                              found.es[1], c.value)
                      IN  IF r.exc # "" THEN Raised(r.exc, found, r.cfg)
                          ELSE Returned(PyNone, found, r.cfg)

\* iConfig.whereis
iConfig_whereis(k, cache, c) ==
    LET kp == get_key_path(c.key, c.path)
    IN  IF kp.exc # "" THEN Raised(kp.exc, FoundRaise(kp.exc, <<>>), cache)
        ELSE LET found == KeyIndex_whereis(k.index, kp.key, kp.path, c.level,
                                           c.depth)
             IN  IF found.kind = "raise"
                 THEN Raised(ExcClass(found.exc), found, cache)
                 ELSE IF found.kind = "none"
                 THEN Returned(PyNone, found, cache)
                 ELSE ReturnedList(WhereRecords(found), found, cache)

(***************************************************************************)
(* The configuration directories the sessions start from.                  *)
(***************************************************************************)
Dollar == <<"$", "H">>

\* r.yaml:  a: {b: {a: {k: 3}}, k: 1}   b: {k: "$H"}
DocRoot ==
    Map((nA :> Map((nK :> PyInt(<<"1">>))
                   @@ (nB :> Map((nA :> Map((nK :> PyInt(<<"3">>))))))))
        @@ (nB :> Map((nK :> PyStr(Dollar)))))

\* d/s.yaml:  a: {k: ["$H", "y"]}   k: "x"
DocSub ==
    Map((nA :> Map((nK :> List(<<PyStr(Dollar), PyStr(<<"y">>)>>))))
        @@ (nK :> PyStr(<<"x">>)))

\* t.yaml:  a: {k: 5}
DocTop == Map((nA :> Map((nK :> PyInt(<<"5">>)))))

File(doc) == [mtime |-> 1, bad |-> FALSE, doc |-> doc]

Fixtures ==
    { (RootYaml :> File(DocRoot)) @@ (SubYaml :> File(DocSub)) }

\* the orders in which rglob may yield the files of a directory
Orders(disk) ==
    {o \in [1..Cardinality(DOMAIN disk) -> DOMAIN disk] :
        \A i, j \in DOMAIN o : i # j => o[i] # o[j]}

(***************************************************************************)
(* The calls of a session.                                                 *)
(***************************************************************************)
\* the last segment of a key, and the segments of its prefix and of a filter
KeyNames == {nA, nK, nZ}

PathNames == {nA, nB}

KeyStrings ==
    {join(pre \o <<n>>, ".") :
        pre \in SeqsUpTo(PathNames, 0, MaxKeySegs - 1), n \in KeyNames}

PathSegSeqs == SeqsUpTo(PathNames, 0, MaxPathLen)

PathArgs ==
    {PathNone}
    \cup {PathList(q) : q \in PathSegSeqs}
    \cup {PathTuple(q) : q \in PathSegSeqs}
    \cup {PathStr(join(q, "/")) : q \in PathSegSeqs}

Levels == -1..MaxLevel

Depths == -1..MaxDepth

Defaults == {PyNone, PyStr(Dollar)}

SetValues ==
    {PyInt(<<"7">>), PyStr(Dollar), List(<<PyStr(Dollar)>>),
     Map((nK :> PyStr(<<"y">>)))}

\* a call and its arguments; met is the state of the sidecar file that a
\* reload came upon
Call(op, key, path, level, depth, forcefirst, default, value, force) ==
    [op |-> op, key |-> key, path |-> path, level |-> level, depth |-> depth,
     forcefirst |-> forcefirst, return_all |-> FALSE, default |-> default,
     value |-> value, force |-> force, met |-> ""]

NoCall == Call("", <<>>, PathNone, -1, -1, FALSE, PyNone, PyNone, FALSE)

NoRet == [kind |-> "", exc |-> "", val |-> PyNone, where |-> <<>>,
          found |-> FoundNone]

Outcome(r) == [kind |-> r.kind, exc |-> r.exc, val |-> r.val,
               where |-> r.where, found |-> r.found]

(***************************************************************************)
(* The session: Init is the state after iConfig() on a directory that has  *)
(* no sidecar yet.                                                         *)
(***************************************************************************)
Init ==
    \E disk \in Fixtures : \E order \in Orders(disk) :
        LET ks == KeyIndex(NoSidecar, disk, order, FALSE)
        IN  /\ env = SessionEnv
            /\ inst = 1
            /\ fs = disk
            /\ ki = ks.k
            /\ sidecar = ks.side
            /\ cfg = <<>>
            /\ nsets = 0
            /\ pc = "idle"
            /\ call = NoCall
            /\ ret = NoRet

GetOver(paths, depths) ==
    /\ pc = "idle"
    /\ \E key \in KeyStrings, path \in paths, level \in Levels,
          depth \in depths, forcefirst \in BOOLEAN, default \in Defaults :
          LET c == Call("get", key, path, level, depth, forcefirst, default,
                        PyNone, FALSE)
              r == iConfig_get(ki, cfg, fs, c)
          IN  /\ call' = c
              /\ ret' = Outcome(r)
              /\ cfg' = r.cfg
    /\ pc' = "returned"
    /\ UNCHANGED <<env, inst, fs, sidecar, ki, nsets>>

Get == GetOver(PathArgs, Depths)

\* a set that indexes the document again once the value is stored
SetOver_Reindexes(n, paths, depths) ==
    /\ pc = "idle"
    /\ nsets < n
    /\ \E key \in KeyStrings, path \in paths, level \in Levels,
          depth \in depths, forcefirst \in BOOLEAN, value \in SetValues :
          LET c == Call("set", key, path, level, depth, forcefirst, PyNone,
                        value, FALSE)
              r == iConfig_set(ki, cfg, fs, c)
          IN  /\ call' = c
              /\ ret' = Outcome(r)
              /\ cfg' = r.cfg
              /\ nsets' = IF r.cfg # cfg THEN nsets + 1 ELSE nsets
              /\ ki' = IF r.kind = "value" /\ r.found.kind = "entry"
                       THEN LET d == r.found.es[1].dict_ref
                            IN  [ki EXCEPT !.index =
                                    _index_config(@, ki.files, r.cfg[d], d)]
                       ELSE ki
    /\ pc' = "returned"
    /\ UNCHANGED <<env, inst, fs, sidecar>>

\* iConfig.set, in a session that calls it at most n times to an effect, with
\* the path and depth arguments drawn from the given sets
SetOver(n, paths, depths) ==
    /\ pc = "idle"
    /\ nsets < n
    /\ \E key \in KeyStrings, path \in paths, level \in Levels,
          depth \in depths, forcefirst \in BOOLEAN, value \in SetValues :
          LET c == Call("set", key, path, level, depth, forcefirst, PyNone,
                        value, FALSE)
              r == iConfig_set(ki, cfg, fs, c)
          IN  /\ call' = c
              /\ ret' = Outcome(r)
              /\ cfg' = r.cfg
              /\ nsets' = IF r.cfg # cfg THEN nsets + 1 ELSE nsets
    /\ pc' = "returned"
    /\ UNCHANGED <<env, inst, fs, sidecar, ki>>

SetUpTo(n) == SetOver(n, PathArgs, Depths)

Set == SetUpTo(MaxSets)

Whereis ==
    /\ pc = "idle"
    /\ \E key \in KeyStrings, path \in PathArgs, level \in Levels,
          depth \in Depths, forcefirst \in BOOLEAN :
          LET c == Call("whereis", key, path, level, depth, forcefirst, PyNone,
                        PyNone, FALSE)
              r == iConfig_whereis(ki, cfg, c)
          IN  /\ call' = c
              /\ ret' = Outcome(r)
              /\ cfg' = r.cfg
    /\ pc' = "returned"
    /\ UNCHANGED <<env, inst, fs, sidecar, ki, nsets>>

\* a reload that keeps the cached documents
Reload_KeepsCache ==
    /\ pc = "idle"
    /\ \E force \in BOOLEAN, order \in Orders(fs) :
          LET ks == KeyIndex(sidecar, fs, order, force)
          IN  /\ ki' = IF ks.exc # "" THEN ki ELSE ks.k
              /\ sidecar' = ks.side
              /\ call' = [Call("reload", <<>>, PathNone, -1, -1, FALSE,
                               PyNone, PyNone, force)
                             EXCEPT !.met = sidecar.st]
              /\ ret' = Outcome(IF ks.exc # ""
                                THEN Raised(ks.exc, FoundNone, <<>>)
                                ELSE Returned(PyNone, FoundNone, <<>>))
    /\ pc' = "returned"
    /\ UNCHANGED <<env, inst, fs, nsets, cfg>>

\* iConfig.reload: a new KeyIndex, then the cache is emptied
Reload ==
    /\ pc = "idle"
    /\ \E force \in BOOLEAN, order \in Orders(fs) :
          LET ks == KeyIndex(sidecar, fs, order, force)
          IN  /\ ki' = IF ks.exc # "" THEN ki ELSE ks.k
              /\ sidecar' = ks.side
              /\ cfg' = IF ks.exc # "" THEN cfg ELSE <<>>
              /\ call' = [Call("reload", <<>>, PathNone, -1, -1, FALSE,
                               PyNone, PyNone, force)
                             EXCEPT !.met = sidecar.st]
              /\ ret' = Outcome(IF ks.exc # ""
                                THEN Raised(ks.exc, FoundNone, <<>>)
                                ELSE Returned(PyNone, FoundNone, <<>>))
    /\ pc' = "returned"
    /\ UNCHANGED <<env, inst, fs, nsets>>

\* the caller takes the result; the next call starts from here
Return ==
    /\ pc = "returned"
    /\ pc' = "idle"
    /\ call' = NoCall
    /\ ret' = NoRet
    /\ UNCHANGED <<env, inst, fs, sidecar, ki, cfg, nsets>>

Next == Get \/ Set \/ Whereis \/ Reload \/ Return

Spec == Init /\ [][Next]_vars

(***************************************************************************)
(* KeyIndex._find as a function: Init draws the index and the arguments,   *)
(* Find applies it.                                                        *)
(***************************************************************************)
FindFixtures ==
    { (RootYaml :> File(DocRoot)) @@ (SubYaml :> File(DocSub)),
      (RootYaml :> File(DocRoot)) @@ (TopYaml :> File(DocTop)) }

FindKeys ==
    {join(pre \o <<n>>, ".") :
        pre \in SeqsUpTo(Names, 0, MaxKeySegs - 1), n \in Names \cup {nZ}}

FindSegSeqs == SeqsUpTo(Names, 0, MaxPathLen + 1)

\* path: list[str] | str | None
FindPaths ==
    {PathNone}
    \cup {PathList(q) : q \in FindSegSeqs}
    \cup {PathStr(join(q, "/")) : q \in FindSegSeqs}

InitFind ==
    \E disk \in FindFixtures : \E order \in Orders(disk) :
        LET ks == KeyIndex(NoSidecar, disk, order, FALSE)
        IN  /\ env = SessionEnv
            /\ inst = 1
            /\ fs = disk
            /\ ki = ks.k
            /\ sidecar = ks.side
            /\ cfg = <<>>
            /\ nsets = 0
            /\ pc = "called"
            /\ ret = NoRet
            /\ \E key \in FindKeys, path \in FindPaths,
                  level \in -1..(MaxLevel + 1), depth \in -1..(MaxDepth + 2),
                  forcefirst \in BOOLEAN, return_all \in BOOLEAN :
                    call = [Call("_find", key, path, level, depth, forcefirst,
                                 PyNone, PyNone, FALSE)
                              EXCEPT !.return_all = return_all]

Find ==
    /\ pc = "called"
    /\ call.op = "_find"
    /\ LET found == _find(ki.index, call.key, call.path, call.level,
                          call.depth, call.forcefirst, call.return_all)
       IN  ret' = [NoRet EXCEPT !.kind = IF found.kind = "raise" THEN "raise"
                                         ELSE "value",
                                !.exc = found.exc,
                                !.found = found]
    /\ pc' = "returned"
    /\ UNCHANGED <<env, inst, fs, sidecar, ki, cfg, nsets, call>>

NextFind == Find

SpecFind == InitFind /\ [][NextFind]_vars

(***************************************************************************)
(* Properties.                                                             *)
(***************************************************************************)
\* a call of the facade has just returned or raised
Answered(op) == pc = "returned" /\ call.op = op

\* the effective key of a call: the last segment of the dotted key
EffectiveKey(c) == Last(split(c.key, "."))

\* what a call answers when nothing is found
NotFoundValue(c) == IF c.op = "get" THEN c.default ELSE PyNone

\* C1: for a key that is absent from the Index (after dot-splitting) and any
\* filters, get returns the caller's default without raising, whereis returns
\* None, and set returns without raising and leaves the Document cache, the
\* Index and the FileRecords unchanged.
C1_AbsentKeyIsNotFound ==
    [][ ( /\ pc = "idle"
          /\ pc' = "returned"
          /\ call'.op \in {"get", "set", "whereis"}
          /\ EffectiveKey(call') \notin DOMAIN ki.index )
        => ( /\ ret'.kind = "value"
             /\ ret'.val = NotFoundValue(call')
             /\ call'.op = "set" => (cfg' = cfg /\ ki' = ki) ) ]_vars

\* the arguments of a call as the resolver receives them: [exc, key, path]
Normal(c) == get_key_path(c.key, c.path)

\* a call whose arguments reach the filters of the resolver
Reaches(c) == Normal(c).exc = "" /\ Normal(c).key \in DOMAIN ki.index

\* the entries of the key of a call
Entries(c) == IF Reaches(c) THEN ki.index[Normal(c).key] ELSE <<>>

\* the entries left by the path filter, by the level filter, by the depth filter
AfterPath(c) == FilterPath(Entries(c), Normal(c).path)

AfterLevel(c) ==
    IF AfterPath(c) = <<>> THEN <<>> ELSE FilterLevel(AfterPath(c), c.level)

AfterDepth(c) ==
    IF AfterLevel(c) = <<>> THEN <<>> ELSE FilterDepth(AfterLevel(c), c.depth)

\* C2: final disambiguation of the candidates left by the path, level and
\* depth filters: exactly one entry is returned as it is; otherwise forcefirst
\* returns the first remaining entry in insertion order, also when return_all
\* is requested; otherwise return_all returns the whole remaining sequence;
\* otherwise the ambiguity error is raised.  KeyIndex.get, which get and set
\* go through, never requests return_all, so two or more tied entries raise
\* for them unless forcefirst is given.
C2_FinalPrecedence ==
    (Answered("_find") /\ AfterDepth(call) # <<>>) =>
        LET es == AfterDepth(call)
        IN  /\ Len(es) = 1 => ret.found = FoundEntry(es[1])
            /\ (Len(es) > 1 /\ call.forcefirst) => ret.found = FoundEntry(es[1])
            /\ (Len(es) > 1 /\ ~call.forcefirst /\ call.return_all)
                   => ret.found = FoundList(es)
            /\ (Len(es) > 1 /\ ~call.forcefirst /\ ~call.return_all)
                   => /\ ret.kind = "raise"
                      /\ ret.found.exc = "KeyError:ambiguous"

\* two candidates tie, forcefirst and return_all are both given, and the
\* first one is returned
C2_Witness ==
    /\ Answered("_find")
    /\ Len(AfterDepth(call)) > 1
    /\ call.forcefirst
    /\ call.return_all
    /\ ret.found = FoundEntry(AfterDepth(call)[1])
    /\ AfterDepth(call)[2] # AfterDepth(call)[1]

C4_DepthRule ==
    ( /\ pc = "returned"
      /\ call.op \in {"get", "set", "whereis"}
      /\ call.depth < 0
      /\ AfterLevel(call) # <<>> ) =>
        LET survivors == Range(AfterLevel(call))
            shallowest == {e \in survivors :
                              \A q \in survivors : e.depth <= q.depth}
            resolved  == Range(ret.found.es)
        IN  /\ resolved # {}
            /\ resolved \subseteq shallowest
            /\ ~call.forcefirst => resolved = shallowest
            /\ Cardinality(shallowest) = 1 => ret.found.kind = "entry"

\* a key present at depth 1 and at depth 3 of the same level resolves to the
\* depth-1 entry
C4_Witness ==
    /\ Answered("get")
    /\ call.depth < 0
    /\ ret.kind = "value"
    /\ ret.found.kind = "entry"
    /\ ret.found.es[1].depth = 1
    /\ \E i \in DOMAIN AfterLevel(call) : AfterLevel(call)[i].depth = 3

\* C5: silent versus thrown, for a call whose arguments reach the filters.  An
\* explicit depth d >= 0 that none of the entries left after the path and
\* level filters has makes get, set and whereis raise the depth KeyError with
\* the cache and the Index unchanged; a path filter or an explicit level that
\* matches nothing makes get return the default, set do nothing and whereis
\* return None, without raising.
C5_SilentVersusThrown ==
    [][ ( /\ pc = "idle"
          /\ pc' = "returned"
          /\ call'.op \in {"get", "set", "whereis"}
          /\ Reaches(call') ) =>
        ( /\ ( /\ call'.depth >= 0
               /\ AfterLevel(call') # <<>>
               /\ \A i \in DOMAIN AfterLevel(call') :
                      AfterLevel(call')[i].depth # call'.depth )
             => ( /\ ret'.kind = "raise"
                  /\ ret'.exc = "KeyError"
                  /\ ret'.found.exc = "KeyError:depth"
                  /\ cfg' = cfg
                  /\ ki' = ki )
          /\ ( \/ AfterPath(call') = <<>>
               \/ (call'.level >= 0 /\ AfterLevel(call') = <<>>) )
             => ( /\ ret'.kind = "value"
                  /\ ret'.val = NotFoundValue(call')
                  /\ cfg' = cfg
                  /\ ki' = ki ) ) ]_vars

\* set with an explicit depth that no remaining entry has raised the depth
\* KeyError
C5_Witness ==
    /\ Answered("set")
    /\ call.depth >= 0
    /\ AfterLevel(call) # <<>>
    /\ AfterDepth(call) = <<>>
    /\ ret.kind = "raise"
    /\ ret.found.exc = "KeyError:depth"

\* C6: a non-empty path filter retains exactly the entries whose recorded path
\* holds every segment of the filter, at any position and in any order: when
\* no entry qualifies the result is NotFound, every resolved entry qualifies,
\* and with default level and depth the resolved entries are the qualifying
\* entries of the highest level and, there, of the smallest depth.
C6_PathFilter ==
    ( /\ Answered("_find")
      /\ Reaches(call)
      /\ PathTruthy(Normal(call).path) ) =>
        LET segs     == PathSegments(Normal(call).path)
            qualify  == {e \in Range(Entries(call)) :
                            \A i \in DOMAIN segs :
                                \E j \in DOMAIN e.path : e.path[j] = segs[i]}
            best     == {e \in qualify :
                            /\ \A q \in qualify : q.level <= e.level
                            /\ \A q \in qualify :
                                   q.level = e.level => e.depth <= q.depth}
            resolved == Range(ret.found.es)
        IN  /\ qualify = {} => ret.found = FoundNone
            /\ resolved \subseteq qualify
            /\ (call.level < 0 /\ call.depth < 0) =>
                   /\ resolved \subseteq best
                   /\ qualify # {} => resolved # {}
                   /\ ~call.forcefirst => resolved = best

\* two definitions of a key at the same level and depth of one file, under
\* different parents: the filter naming one parent resolves to that entry
C6_Witness ==
    /\ Answered("_find")
    /\ PathTruthy(Normal(call).path)
    /\ ~call.forcefirst
    /\ ret.found.kind = "entry"
    /\ \E i \in DOMAIN Entries(call) :
          /\ Entries(call)[i].level = ret.found.es[1].level
          /\ Entries(call)[i].depth = ret.found.es[1].depth
          /\ Entries(call)[i].dict_ref = ret.found.es[1].dict_ref
          /\ Entries(call)[i].path # ret.found.es[1].path
          /\ Len(Entries(call)[i].path) = 1

\* the get that follows a set with the same key and filters
GetAfterSet == iConfig_get(ki, cfg, fs, [call EXCEPT !.op = "get"])

\* a set that resolved to an entry and returned
SetDone ==
    /\ Answered("set")
    /\ ret.kind = "value"
    /\ ret.found.kind = "entry"

PlainGet(key) ==
    Call("get", key, PathNone, -1, -1, FALSE, PyNone, PyNone, FALSE)

\* the value the file of an entry stores for a key, as get hands it out
StoredValue(e, key) == expand_env(Sub(fs[e.dict_ref].doc, e.path \o <<key>>))

\* C8: set is in-memory only.  No set call changes a source file or the
\* sidecar index, and once reload() has returned, whatever was set before,
\* get(key) returns the value stored in the file of the entry it resolves to.
C8_SetInMemoryOnly ==
    /\ [][ (pc = "idle" /\ pc' = "returned" /\ call'.op = "set")
           => (fs' = fs /\ sidecar' = sidecar) ]_vars
    /\ [](Answered("reload") =>
            \A key \in KeyStrings :
                LET g == iConfig_get(ki, cfg, fs, PlainGet(key))
                IN  g.found.kind = "entry" =>
                        /\ g.kind = "value"
                        /\ g.val = StoredValue(g.found.es[1], EffectiveKey(PlainGet(key))))

\* reload() has returned in a session in which a set changed the cache, and a
\* plain get resolves to an entry
C8_Witness ==
    /\ Answered("reload")
    /\ nsets > 0
    /\ \E key \in KeyStrings :
          iConfig_get(ki, cfg, fs, PlainGet(key)).found.kind = "entry"

\* the path filter of the call that C9 holds equivalent: the prefix of the
\* dotted key before the path filter of the caller
Prepended(prefix, path) ==
    CASE ~PathTruthy(path) -> PathList(prefix)
      [] path.kind = "list" -> PathList(prefix \o path.segs)
      [] path.kind = "tuple" -> PathTuple(prefix \o path.segs)
      [] OTHER -> PathList(prefix \o PathSegments(path))

Equivalent(c) ==
    [c EXCEPT !.key = EffectiveKey(c),
              !.path = Prepended(Front(split(c.key, ".")), c.path)]

Perform(c) ==
    CASE c.op = "get" -> iConfig_get(ki, cfg, fs, c)
      [] c.op = "set" -> iConfig_set(ki, cfg, fs, c)
      [] OTHER -> iConfig_whereis(ki, cfg, c)

\* C9: dot-path equivalence.  get, set and whereis called with a dotted key
\* p1.….pn.k and any filters return the same value, raise the same error and
\* change the state in the same way as the same call with key k and the path
\* filter [p1,…,pn] prepended to the path filter of the caller.
C9_DotPathEquivalence ==
    [][ ( /\ pc = "idle"
          /\ pc' = "returned"
          /\ call'.op \in {"get", "set", "whereis"}
          /\ HasChar(".", call'.key) ) =>
        LET r == Perform(Equivalent(call'))
        IN  /\ ret'.kind = r.kind
            /\ ret'.exc = r.exc
            /\ ret'.val = r.val
            /\ ret'.where = r.where
            /\ cfg' = r.cfg ]_vars

(***************************************************************************)
(* The configuration directory changes under the session: files are        *)
(* written and deleted between the calls, and reload() looks again.        *)
(***************************************************************************)
LifeRefs == {RootYaml, SubYaml}

LifeDocs == {DocSub, DocTop}

\* a file is created or rewritten; its modification time is any time
WriteOver(refs, docs) ==
    /\ pc = "idle"
    /\ \E d \in refs, doc \in docs, m \in 1..MaxMtime :
          /\ d \in DOMAIN fs => fs[d] # [File(doc) EXCEPT !.mtime = m]
          /\ fs' = [x \in DOMAIN fs \cup {d} |->
                       IF x = d THEN [File(doc) EXCEPT !.mtime = m] ELSE fs[x]]
    /\ UNCHANGED <<env, inst, sidecar, ki, cfg, nsets, pc, call, ret>>

WriteFile == WriteOver(LifeRefs, LifeDocs)

\* a file is deleted
DeleteFile ==
    /\ pc = "idle"
    /\ \E d \in DOMAIN fs : fs' = [x \in DOMAIN fs \ {d} |-> fs[x]]
    /\ UNCHANGED <<env, inst, sidecar, ki, cfg, nsets, pc, call, ret>>

\* the sidecar file is deleted
DeleteSidecar ==
    /\ pc = "idle"
    /\ sidecar.st # "none"
    /\ sidecar' = NoSidecar
    /\ UNCHANGED <<env, inst, fs, ki, cfg, nsets, pc, call, ret>>

\* the sidecar file is damaged: it no longer parses, or it parses to a value
\* that is no mapping
CorruptSidecar ==
    /\ pc = "idle"
    /\ sidecar.st = "ok"
    /\ \E st \in {"unparsable", "notmap"} : sidecar' = [sidecar EXCEPT !.st = st]
    /\ UNCHANGED <<env, inst, fs, ki, cfg, nsets, pc, call, ret>>

NextLife ==
    WriteFile \/ DeleteFile \/ DeleteSidecar \/ CorruptSidecar \/ Reload \/ Return

SpecLife == Init /\ [][NextLife]_vars

\* the key of an entry is a key of the mapping at the path of the entry in the
\* document its file holds now
Present(key, e) ==
    /\ e.dict_ref \in DOMAIN fs
    /\ ~fs[e.dict_ref].bad
    /\ e.path \in DOMAIN fs[e.dict_ref].doc
    /\ IsDict(fs[e.dict_ref].doc, e.path)
    /\ key \in Keys(fs[e.dict_ref].doc, e.path)

\* C10: index entries are replaced wholesale on rebuild.  When reload() has
\* completed, also when the freshness check rebuilt on top of a persisted
\* index, the dict_ref of every IndexEntry is a key of FileRecords and every
\* IndexEntry is of a key that a discovered document holds now.
C10_ReplacedWholesale ==
    Answered("reload") =>
        \A key \in DOMAIN ki.index :
            \A i \in DOMAIN ki.index[key] :
                /\ ki.index[key][i].dict_ref \in DOMAIN ki.files
                /\ Present(key, ki.index[key][i])

\* the keys of a document: the paths at which a mapping holds a key
KeysOf(doc) ==
    {q \in DOMAIN doc :
        /\ q # <<>>
        /\ \A i \in 0..(Len(q) - 1) : doc[SubSeq(q, 1, i)].t = "map"}

\* every key of every file of the directory has its entry in the index
Complete(index, disk) ==
    \A d \in DOMAIN disk :
        ~disk[d].bad =>
            \A q \in KeysOf(disk[d].doc) :
                /\ Last(q) \in DOMAIN index
                /\ \E i \in DOMAIN index[Last(q)] :
                      /\ index[Last(q)][i].dict_ref = d
                      /\ index[Last(q)][i].path = Front(q)
                      /\ index[Last(q)][i].depth = Len(q) - 1
                      /\ index[Last(q)][i].level = Len(d) - 1

\* the directory differs from the persisted FileRecords: another set of
\* dict_refs, or another modification time of a shared dict_ref
Differs(side, disk) ==
    \/ DOMAIN disk # DOMAIN side.files
    \/ \E d \in DOMAIN disk \cap DOMAIN side.files :
          disk[d].mtime # side.files[d].mtime

\* a reload that is not forced and finds a readable sidecar
Rechecks ==
    /\ pc = "idle"
    /\ pc' = "returned"
    /\ call'.op = "reload"
    /\ ~call'.force
    /\ sidecar.st = "ok"

\* C11: the freshness check triggers a rebuild if and only if the discovered
\* set of dict_refs differs from the persisted one or a shared dict_ref has
\* another modification time.  After a rebuild the FileRecords are those of
\* the directory, every key of its files is indexed and the sidecar holds
\* the new Index and FileRecords; without one the persisted Index and
\* FileRecords are used as they are and the sidecar is not rewritten.
C11_FreshnessCheck ==
    [][ Rechecks =>
        IF Differs(sidecar, fs)
        THEN /\ DOMAIN ki'.files = DOMAIN fs
             /\ \A d \in DOMAIN fs : ki'.files[d].mtime = fs[d].mtime
             /\ Complete(ki'.index, fs)
             /\ sidecar' = [st |-> "ok", index |-> ki'.index,
                            files |-> ki'.files]
        ELSE /\ ki'.index = sidecar.index
             /\ ki'.files = sidecar.files
             /\ sidecar' = sidecar ]_vars

\* an unforced reload has returned over a file that was rewritten without a
\* new modification time: no rebuild, the keys of the new content are not
\* indexed
C11_Witness ==
    /\ Answered("reload")
    /\ ~call.force
    /\ sidecar.st = "ok"
    /\ ~Differs(sidecar, fs)
    /\ ki.index = sidecar.index
    /\ ~Complete(ki.index, fs)

\* how often an entry occurs in a sequence of entries
Count(e, es) == Cardinality({i \in DOMAIN es : es[i] = e})

\* the same key set and, per key, the same multiset of entries
SameEntries(index1, index2) ==
    /\ DOMAIN index1 = DOMAIN index2
    /\ \A key \in DOMAIN index1 :
          \A e \in Range(index1[key]) \cup Range(index2[key]) :
              Count(e, index1[key]) = Count(e, index2[key])

\* a reload that runs _build: forced, or without a readable sidecar, or with
\* a sidecar the directory differs from
Builds ==
    /\ pc = "idle"
    /\ pc' = "returned"
    /\ call'.op = "reload"
    /\ (call'.force \/ sidecar.st # "ok" \/ Differs(sidecar, fs))

\* C12: idempotent rebuild.  After a build, a second build against the
\* unchanged directory, on the same KeyIndex or on a fresh one, yields the
\* same key set, per key the same multiset of entries, and the same
\* FileRecords.
C12_IdempotentRebuild ==
    [][ Builds =>
        \A order \in Orders(fs) :
            LET again == _build(ki', fs, order)
                fresh == _build(EmptyIndex, fs, order)
            IN  /\ SameEntries(again.index, ki'.index)
                /\ again.files = ki'.files
                /\ SameEntries(fresh.index, ki'.index)
                /\ fresh.files = ki'.files ]_vars

\* get resolved to an entry, and the cached document holds no such key at
\* the place the entry names
KeyMissing ==
    /\ ret.found.kind = "entry"
    /\ ret.found.es[1].dict_ref \in DOMAIN cfg
    /\ LET data   == cfg[ret.found.es[1].dict_ref]
           nested == _get_nested(data, <<>>, ret.found.es[1].path)
       IN  /\ nested.exc = ""
           /\ PyIn(Normal(call).key, data, nested.at) = "no"

\* C13: the default that get returns is environment-expanded in both
\* not-found cases: when the key resolves to no entry, and when the entry is
\* found but the document holds no such key.
C13_DefaultExpanded ==
    ( /\ Answered("get")
      /\ ret.kind = "value"
      /\ (ret.found.kind = "none" \/ KeyMissing) )
    => ret.val = expand_env(call.default)

\* C14: whereis never raises the ambiguity error and ignores forcefirst: it
\* returns one {level, path} record for every entry that remains after the
\* path, level and depth filters, in Index order, and None when the key is
\* absent or filtered out by path or level; it never returns an empty list.
C14_WhereisRecords ==
    Answered("whereis") =>
        /\ ret.found.exc # "KeyError:ambiguous"
        /\ ret.kind = "where" => ret.where # <<>>
        /\ EffectiveKey(call) \notin DOMAIN ki.index =>
               (ret.kind = "value" /\ ret.val = PyNone)
        /\ Reaches(call) =>
               /\ AfterLevel(call) = <<>> =>
                      (ret.kind = "value" /\ ret.val = PyNone)
               /\ AfterDepth(call) # <<>> =>
                      /\ ret.kind = "where"
                      /\ ret.where =
                             [i \in DOMAIN AfterDepth(call) |->
                                 [level |-> AfterDepth(call)[i].level,
                                  path |-> AfterDepth(call)[i].path]]

\* word stands in s as a word of its own: between the ends of s, blanks,
\* quotes, colons, commas or line ends
Mentions(word, s) ==
    LET Delimiters == {" ", "'", ":", ",", "\n"}
    IN  \/ word = <<>>
        \/ \E i \in 0..(Len(s) - Len(word)) :
               /\ SubSeq(s, i + 1, i + Len(word)) = word
               /\ (i = 0 \/ s[i] \in Delimiters)
               /\ (i + Len(word) = Len(s) \/ s[i + Len(word) + 1] \in Delimiters)

\* C15: the ambiguity error that get and set raise carries a message that
\* names the key, the number of tied entries and the "/"-joined path of each
\* tied entry.
C15_AmbiguityMessage ==
    ((Answered("get") \/ Answered("set"))
        /\ ret.found.exc = "KeyError:ambiguous") =>
        /\ Mentions(EffectiveKey(call), ret.found.msg)
        /\ Mentions(str(Len(ret.found.es)), ret.found.msg)
        /\ \A i \in DOMAIN ret.found.es :
               Mentions(join(ret.found.es[i].path, "/"), ret.found.msg)

\* the same call with its positional segments given as the path keyword
AsKeyword(c) == [c EXCEPT !.path = PathList(c.path.segs)]

\* C16: positional path segments are equivalent to the path keyword.  get,
\* set and whereis called as (key, s1, ..., sn) return the same value, raise
\* the same error and change the state in the same way as the same call
\* with path = [s1, ..., sn], for every key, dotted or not, and every n >= 0.
C16_PositionalEquivalence ==
    [][ ( /\ pc = "idle"
          /\ pc' = "returned"
          /\ call'.op \in {"get", "set", "whereis"}
          /\ call'.path.kind = "tuple" ) =>
        LET r == Perform(AsKeyword(call'))
        IN  /\ ret'.kind = r.kind
            /\ ret'.exc = r.exc
            /\ ret'.val = r.val
            /\ ret'.where = r.where
            /\ cfg' = r.cfg ]_vars

\* the list of the "/"-separated segments of a path filter given as a string
AsSegments(path) == PathList(split(path.s, "/"))

\* C17: a path filter passed as one string is treated as the list of its
\* "/"-separated segments (one segment when it holds no "/"), for every key,
\* dotted or not; for a dotted key the prefix segments of the key are
\* prepended to those segments.
C17_StringPath ==
    (Answered("_find") /\ call.path.kind = "str" /\ call.path.s # <<>>) =>
        ret.found = _find(ki.index, call.key, AsSegments(call.path),
                          call.level, call.depth, call.forcefirst,
                          call.return_all)

(***************************************************************************)
(* A session that only sets: the second set finds the cache as the first   *)
(* one left it.                                                            *)
(***************************************************************************)
SetAgain == SetUpTo(MaxSets + 1)

NextSet == SetAgain \/ Return

SpecSet == Init /\ [][NextSet]_vars

\* the document that a set of value at key under path leaves, given the
\* document it found: the segments of the path that are missing or no
\* mapping, and all below them, give way to mappings that hold the next
\* segment only; value stands at the key; all else stays
AfterSet(before, path, key, value) ==
    LET target    == path \o <<key>>
        Stem(i)   == SubSeq(path, 1, i)
        Broken    == {i \in 1..Len(path) :
                         Stem(i) \notin DOMAIN before
                             \/ ~IsDict(before, Stem(i))}
        Inside(q) == \/ IsPrefix(target, q)
                     \/ \E i \in Broken : IsPrefix(Stem(i), q)
        Kept      == {q \in DOMAIN before : ~Inside(q)}
        Stems     == {Stem(i) : i \in 0..Len(path)}
        New       == {target \o r : r \in DOMAIN value}
    IN  [q \in Kept \cup Stems \cup New |->
            IF q \in New THEN value[SubSeq(q, Len(target) + 1, Len(q))]
            ELSE IF q \in Stems THEN EmptyMap[<<>>]
            ELSE before[q]]

\* C18: on a resolved entry, set walks the path of the entry in the cached
\* document, puts an empty mapping in the place of every intermediate
\* segment that is missing or no mapping, and assigns value at the key;
\* every part of the document outside that path, and every other cached
\* document, is unchanged.
C18_SetFrame ==
    [][ ( /\ pc = "idle"
          /\ pc' = "returned"
          /\ call'.op = "set"
          /\ ret'.found.kind = "entry" ) =>
        LET e      == ret'.found.es[1]
            d      == e.dict_ref
            before == IF d \in DOMAIN cfg THEN cfg[d] ELSE fs[d].doc
        IN  /\ ret'.kind = "value"
            /\ DOMAIN cfg' = DOMAIN cfg \cup {d}
            /\ \A x \in DOMAIN cfg \ {d} : cfg'[x] = cfg[x]
            /\ cfg'[d] = AfterSet(before, e.path, Normal(call').key,
                                  call'.value) ]_vars

\* the second set finds a scalar where the first one had found the mapping
\* of the path, and leaves a mapping that holds the key only
C18_Witness ==
    /\ Answered("set")
    /\ nsets = MaxSets + 1
    /\ ret.found.kind = "entry"
    /\ ret.found.es[1].path # <<>>
    /\ LET e == ret.found.es[1]
       IN  /\ Keys(cfg[e.dict_ref], e.path) = {Normal(call).key}
           /\ Keys(fs[e.dict_ref].doc, e.path) # {Normal(call).key}

\* the get of line 201: instance_.get("iconfig.singleton", default=True)
SingletonCall ==
    Call("get", nIconfig \o <<".">> \o nSingleton, PathNone, -1, -1, FALSE,
         PyTrue, PyNone, FALSE)

\* instances[class_] = class_(...) of lines 199 and 204, given what the
\* constructor r has left: the wrapper holds the new instance when the
\* constructor returns, and what it held when the constructor raises
Stored(n, k, cache, r) ==
    IF r.exc # ""
    THEN [exc |-> r.exc, inst |-> n, k |-> IF n = 0 THEN r.k ELSE k,
          side |-> r.side, cfg |-> IF n = 0 THEN <<>> ELSE cache]
    ELSE [exc |-> "", inst |-> n + 1, k |-> r.k, side |-> r.side,
          cfg |-> <<>>]

\* the instance that the wrapper holds, handed out as it is
Held(n, k, cache, side) ==
    [exc |-> "", inst |-> n, k |-> k, side |-> side, cfg |-> cache]

\* a wrapper that hands out the instance it holds, whatever the setting
getinstance_Sticky(n, k, cache, side, e, disk, order, force_rebuild) ==
    IF n = 0
    THEN Stored(n, k, cache, iConfig_init(e, side, disk, order, force_rebuild))
    ELSE Held(n, k, cache, side)

\* lines 200-205, given the answer g of the get of line 201 and what the
\* constructor r leaves when it is called
Decide(n, k, side, g, r) ==
    IF g.kind = "raise"
    THEN [exc |-> g.exc, inst |-> n, k |-> k, side |-> side, cfg |-> g.cfg]
    ELSE IF Truthy(g.val) THEN Held(n, k, g.cfg, side)
    ELSE Stored(n, k, g.cfg, r)

\* utils.singleton_or_not.getinstance for iConfig: [exc, inst, k, side, cfg].
\* n is the number of the instance that `instances` holds, 0 for none; k
\* and cache are the KeyIndex and the cache of that instance.
getinstance(n, k, cache, side, e, disk, order, force_rebuild) ==
    IF n = 0
    THEN Stored(n, k, cache, iConfig_init(e, side, disk, order, force_rebuild))
    ELSE Decide(n, k, side, iConfig_get(k, cache, disk, SingletonCall),
                iConfig_init(e, side, disk, order, force_rebuild))

(***************************************************************************)
(* Construction: Init is the process before iConfig() is called, in any    *)
(* environment; the directory of the KeyIndex, when it exists, holds the   *)
(* files and either no sidecar or the one an earlier session wrote.        *)
(***************************************************************************)
InitNew ==
    \E e \in Envs, force \in BOOLEAN :
        /\ env = e
        /\ inst = 0
        /\ IF KeyIndexBase(e) \in e.exists
           THEN \E disk \in Fixtures :
                   /\ fs = disk
                   /\ sidecar \in {NoSidecar} \cup
                          {KeyIndex(NoSidecar, disk, order, FALSE).side :
                               order \in Orders(disk)}
           ELSE fs = <<>> /\ sidecar = NoSidecar
        /\ ki = EmptyIndex
        /\ cfg = <<>>
        /\ nsets = 0
        /\ pc = "new"
        /\ call = Call("init", <<>>, PathNone, -1, -1, FALSE, PyNone, PyNone,
                       force)
        /\ ret = NoRet

\* iConfig(force_rebuild)
Construct ==
    /\ pc = "new"
    /\ \E order \in Orders(fs) :
          \E r \in {getinstance(inst, ki, cfg, sidecar, env, fs, order,
                                call.force)} :
              /\ inst' = r.inst
              /\ ki' = r.k
              /\ sidecar' = r.side
              /\ cfg' = r.cfg
              /\ ret' = Outcome(IF r.exc # ""
                                THEN Raised(r.exc, FoundNone, <<>>)
                                ELSE Returned(PyNone, FoundNone, <<>>))
              /\ pc' = IF r.exc # "" THEN "failed" ELSE "returned"
    /\ UNCHANGED <<env, fs, nsets, call>>

NextInit == Construct \/ Return

SpecInit == InitNew /\ [][NextInit]_vars

\* a step in which iConfig() is called
Constructs == pc = "new" /\ pc' \in {"returned", "failed"}

\* the construction fails, no index is built and no sidecar is written
FailsClean ==
    /\ pc' = "failed"
    /\ ret'.kind = "raise"
    /\ ret'.exc = "FileNotFoundError"
    /\ ki' = EmptyIndex
    /\ sidecar' = sidecar

\* C19: constructing the facade fails with an error both when the
\* root-directory environment variable is unset and when it names a path
\* that does not exist; in either case no index is built and no sidecar is
\* written.
C19_UnsetOrMissingFails ==
    [][ ( /\ Constructs
          /\ \/ env.INCONFIG_HOME = Unset
             \/ env.INCONFIG_HOME \notin env.exists ) => FailsClean ]_vars

\* C19, as the code has it: the construction fails when the directory that
\* INCONFIG_HOME names, or the directory "config" when the variable is
\* unset, does not exist; then no index is built and no sidecar is written.
C19_MissingRootFails ==
    [][ (Constructs /\ FacadeBase(env) \notin env.exists) => FailsClean ]_vars

\* the variable names a directory that does not exist, the directory of the
\* KeyIndex holds a sidecar, and the construction has failed
C19_Witness ==
    /\ pc = "failed"
    /\ env.INCONFIG_HOME # Unset
    /\ env.INCONFIG_HOME \notin env.exists
    /\ KeyIndexBase(env) \in env.exists
    /\ sidecar.st = "ok"
    /\ ret.exc = "FileNotFoundError"

\* a reload that comes upon no sidecar file, or upon one that does not parse
\* or holds no mapping
LoadsWithout ==
    /\ pc = "idle"
    /\ pc' = "returned"
    /\ call'.op = "reload"
    /\ sidecar.st # "ok"

\* C20: loading the index when the sidecar file is missing or corrupt
\* (unparsable, or not a mapping) never raises to the caller: a full build is
\* performed instead, and the resulting Index and FileRecords equal those
\* built from the current files.
C20_LoadWithoutSidecar ==
    [][ LoadsWithout =>
        /\ ret'.kind = "value"
        /\ \E order \in Orders(fs) :
              LET fresh == _build(EmptyIndex, fs, order)
              IN  /\ ki' = fresh
                  /\ sidecar' = _save(fresh) ]_vars

\* an unforced reload came upon a damaged sidecar after the files had
\* changed, and has returned with an index of the files
C20_Witness ==
    /\ Answered("reload")
    /\ ~call.force
    /\ call.met \in {"unparsable", "notmap"}
    /\ ret.kind = "value"
    /\ ki.index # <<>>
    /\ Complete(ki.index, fs)
    /\ fs # CHOOSE disk \in Fixtures : TRUE

(***************************************************************************)
(* Construction over directories that hold files that do not parse, files  *)
(* that are empty, and files whose document is no mapping.                 *)
(***************************************************************************)
\* a file that parses to the list ["x"]
DocList == List(<<PyStr(<<"x">>)>>)

BadFile == [File(DocTop) EXCEPT !.bad = TRUE]

\* b: [{k: 1}]   a: {b: {k: 2}}
DocSeq ==
    Map((nB :> List(<<Map((nK :> PyInt(<<"1">>)))>>))
        @@ (nA :> Map((nB :> Map((nK :> PyInt(<<"2">>)))))))

BuildFiles ==
    {File(DocTop), File(DocSub), File(DocSeq), BadFile, File(DocList),
     File(PyNone)}

BuildDisks == [{RootYaml, SubYaml, TopYaml} -> BuildFiles]

InitBuild ==
    \E disk \in BuildDisks, force \in BOOLEAN :
        /\ env = SessionEnv
        /\ inst = 0
        /\ fs = disk
        /\ sidecar = NoSidecar
        /\ ki = EmptyIndex
        /\ cfg = <<>>
        /\ nsets = 0
        /\ pc = "new"
        /\ call = Call("init", <<>>, PathNone, -1, -1, FALSE, PyNone, PyNone,
                       force)
        /\ ret = NoRet

NextBuild == Construct \/ Return

SpecBuild == InitBuild /\ [][NextBuild]_vars

\* a file that yields no document: it does not parse, or it parses to a
\* value that is neither a mapping nor empty
Malformed(f) == f.bad \/ (Truthy(f.doc) /\ ~IsDict(f.doc, <<>>))

\* iConfig() has been called and has ended
Constructed == pc \in {"returned", "failed"} /\ call.op = "init"

\* C21: during build, a document whose load fails is skipped and the build
\* continues: all other files are still indexed and the index is persisted,
\* so that one malformed file cannot block the whole index.
C21_MalformedSkipped ==
    (Constructed /\ \E d \in DOMAIN fs : Malformed(fs[d])) =>
        /\ pc = "returned"
        /\ ret.kind = "value"
        /\ Complete(ki.index, fs)
        /\ sidecar = _save(ki)

\* the index that a build of the directory yields when the file system
\* enumerates the files in the given order
IndexOfRun(order) == _build(EmptyIndex, fs, order).index

\* C22: determinism of build.  For fixed directory contents the files are
\* processed in an order that does not depend on the order in which the file
\* system enumerates them, so that the order of the entries of each key and
\* the result of every forcefirst lookup are the same on every run.
C22_DeterministicBuild ==
    Answered("_find") =>
        \A order \in Orders(fs) :
            /\ IndexOfRun(order) = ki.index
            /\ call.forcefirst =>
                   _find(IndexOfRun(order), call.key, call.path, call.level,
                         call.depth, call.forcefirst, call.return_all)
                       = ret.found

(***************************************************************************)
(* The conditional singleton: iConfig() is called again in a process that  *)
(* holds an instance.                                                      *)
(***************************************************************************)
\* r.yaml:  a: {k: 5}   iconfig: {singleton: v}
DocSingleton(v) ==
    Map((nA :> Map((nK :> PyInt(<<"5">>))))
        @@ (nIconfig :> Map((nSingleton :> v))))

SingletonDisks ==
    {(RootYaml :> File(doc)) @@ extra :
        doc \in {DocTop, DocSingleton(PyTrue), DocSingleton(PyFalse)},
        extra \in {<<>>, (SubYaml :> File(DocSub))}}

InitSingleton ==
    \E disk \in SingletonDisks, force \in BOOLEAN :
        /\ env = SessionEnv
        /\ inst = 0
        /\ fs = disk
        /\ sidecar = NoSidecar
        /\ ki = EmptyIndex
        /\ cfg = <<>>
        /\ nsets = 0
        /\ pc = "new"
        /\ call = Call("init", <<>>, PathNone, -1, -1, FALSE, PyNone, PyNone,
                       force)
        /\ ret = NoRet

\* iConfig(force_rebuild), called while the wrapper holds an instance
ConstructAgain ==
    /\ pc = "idle"
    /\ inst > 0
    /\ inst < MaxInstances
    /\ \E force \in BOOLEAN, order \in Orders(fs) :
          \E r \in {getinstance(inst, ki, cfg, sidecar, env, fs, order,
                                force)} :
              /\ inst' = r.inst
              /\ ki' = r.k
              /\ sidecar' = r.side
              /\ cfg' = r.cfg
              /\ call' = Call("init", <<>>, PathNone, -1, -1, FALSE, PyNone,
                              PyNone, force)
              /\ ret' = Outcome(IF r.exc # ""
                                THEN Raised(r.exc, FoundNone, <<>>)
                                ELSE Returned(PyNone, FoundNone, <<>>))
    /\ pc' = "returned"
    /\ UNCHANGED <<env, fs, nsets>>

NextSingleton == Construct \/ ConstructAgain \/ Set \/ Return

SpecSingleton == InitSingleton /\ [][NextSingleton]_vars

\* the document of r.yaml as the instance sees it: the cached one, or the
\* file when it is not cached
SeenRoot == IF RootYaml \in DOMAIN cfg THEN cfg[RootYaml] ELSE fs[RootYaml].doc

\* the value of iconfig.singleton in that document; PyNone when it is absent
Setting ==
    IF <<nIconfig, nSingleton>> \in DOMAIN SeenRoot
    THEN Sub(SeenRoot, <<nIconfig, nSingleton>>) ELSE PyNone

\* C23: conditional singleton.  Successive iConfig() constructions return
\* the same instance, with its Document cache and the values set in memory,
\* as long as the key iconfig.singleton is absent or resolves to true; when
\* it resolves to false, each construction after the first returns a newly
\* built instance.
C23_ConditionalSingleton ==
    [][ (pc = "idle" /\ call'.op = "init") =>
        /\ Setting \in {PyNone, PyTrue} =>
               /\ ret'.kind = "value"
               /\ inst' = inst
               /\ ki' = ki
               /\ \A d \in DOMAIN cfg : d \in DOMAIN cfg' /\ cfg'[d] = cfg[d]
        /\ Setting = PyFalse =>
               /\ ret'.kind = "value"
               /\ inst' = inst + 1
               /\ cfg' = <<>>
               /\ \E order \in Orders(fs) :
                      ki' = KeyIndex(sidecar, fs, order, call'.force).k ]_vars

\* a construction after a set has returned the instance that holds the set
\* value in its cache
C23_Witness ==
    /\ Answered("init")
    /\ inst = 1
    /\ nsets = 1
    /\ \E d \in DOMAIN cfg : cfg[d] # fs[d].doc

\* every segment of the path leads to a mapping of the document
Intact(doc, path) ==
    \A i \in 0..Len(path) :
        /\ SubSeq(path, 1, i) \in DOMAIN doc
        /\ IsDict(doc, SubSeq(path, 1, i))

\* C24: get returns a value only from the mapping located exactly at the
\* path of the resolved entry in the cached document: if, after earlier
\* sets, a segment of the path is missing or the value at a segment is no
\* mapping, get returns the expanded default; it neither raises nor returns
\* a value of the same key found at a shorter path.
C24_ExactPath ==
    (Answered("get") /\ ret.found.kind = "entry") =>
        LET e   == ret.found.es[1]
            key == Normal(call).key
        IN  /\ ret.kind = "value"
            /\ e.dict_ref \in DOMAIN cfg
            /\ LET doc == cfg[e.dict_ref]
               IN  ret.val =
                       IF Intact(doc, e.path) /\ key \in Keys(doc, e.path)
                       THEN expand_env(Sub(doc, e.path \o <<key>>))
                       ELSE expand_env(call.default)

(***************************************************************************)
(* The Document cache while the files change on disk: a file is rewritten  *)
(* between the calls of a session that reads, writes and reloads.          *)
(***************************************************************************)
\* an external edit of the root file
EditRoot == WriteOver({RootYaml}, {DocTop})

\* get and set with a key and a level, the path and the depth left out
GetByLevel == GetOver({PathNone}, {-1})

SetByLevel == SetOver(MaxSets, {PathNone}, {-1})

NextCache == EditRoot \/ GetByLevel \/ SetByLevel \/ Reload \/ Return

SpecCache == Init /\ [][NextCache]_vars

\* a disk with no file on it
NoDisk == <<>>

\* the call answered from the cache alone
FromCache(cache, c) ==
    IF c.op = "get" THEN iConfig_get(ki, cache, NoDisk, c)
    ELSE iConfig_set(ki, cache, NoDisk, c)

\* C25: each document is parsed from disk at most once between reloads.  A
\* get or set that resolves to a dict_ref not yet cached loads the file as
\* it stands on disk into the Document cache; a get or set on a cached
\* dict_ref is answered from the cached tree alone, whatever the file holds
\* by then; no call but reload removes a document from the cache, and
\* reload() empties it.
C25_ParsedOnce ==
    [][ /\ ( /\ pc = "idle"
             /\ pc' = "returned"
             /\ call'.op \in {"get", "set"}
             /\ ret'.found.kind = "entry" ) =>
            LET d == ret'.found.es[1].dict_ref
            IN  (d \in DOMAIN cfg \/ (d \in DOMAIN fs /\ ~fs[d].bad)) =>
                    LET cache == IF d \in DOMAIN cfg THEN cfg
                                 ELSE cfg @@ (d :> fs[d].doc)
                        r == FromCache(cache, call')
                    IN  /\ ret' = Outcome(r)
                        /\ cfg' = r.cfg
                        /\ DOMAIN cfg' = DOMAIN cfg \cup {d}
                        /\ \A x \in DOMAIN cfg \ {d} : cfg'[x] = cfg[x]
                        /\ call'.op = "get" => cfg' = cache
        /\ (pc' = "returned" /\ call'.op # "reload") =>
               DOMAIN cfg \subseteq DOMAIN cfg'
        /\ (pc' = "returned" /\ call'.op = "reload" /\ ret'.kind = "value")
               => cfg' = <<>> ]_vars

\* a get answered from a cached document that the file on disk no longer
\* matches, in a session that never called set
C25_Witness ==
    /\ Answered("get")
    /\ ret.kind = "value"
    /\ ret.found.kind = "entry"
    /\ nsets = 0
    /\ LET e == ret.found.es[1]
       IN  /\ e.dict_ref \in DOMAIN cfg
           /\ cfg[e.dict_ref] # fs[e.dict_ref].doc
           /\ ret.val = expand_env(Sub(cfg[e.dict_ref],
                                       e.path \o <<Normal(call).key>>))
           /\ ret.val # PyNone

\* whereis with the key alone
PlainWhereis(key) ==
    Call("whereis", key, PathNone, -1, -1, FALSE, PyNone, PyNone, FALSE)

\* C26: set changes only the cached document of the file of the resolved
\* entry: the Index, the FileRecords, the sidecar and every other cached
\* document are as before, and whereis gives the same result after the set
\* as before it; a whereis call is answered from the Index alone, as with an
\* empty cache, also after sets of a mapping or over a mapping.
C26_SetKeepsIndex ==
    /\ [][ (pc = "idle" /\ pc' = "returned" /\ call'.op = "set") =>
              /\ ki' = ki
              /\ sidecar' = sidecar
              /\ \A x \in DOMAIN cfg' :
                     (ret'.found.kind # "entry"
                        \/ x # ret'.found.es[1].dict_ref)
                     => (x \in DOMAIN cfg /\ cfg'[x] = cfg[x])
              /\ \A key \in KeyStrings :
                     Outcome(iConfig_whereis(ki', cfg', PlainWhereis(key)))
                         = Outcome(iConfig_whereis(ki, cfg, PlainWhereis(key)))
          ]_vars
    /\ [](Answered("whereis") =>
             ret = Outcome(iConfig_whereis(ki, <<>>, call)))

\* whereis lists an entry of a key that an earlier set has taken out of the
\* cached document by storing a value over the mapping that held it
C26_Witness ==
    /\ Answered("whereis")
    /\ nsets > 0
    /\ ret.kind = "where"
    /\ \E i \in DOMAIN ret.found.es :
          LET e == ret.found.es[i]
          IN  /\ e.dict_ref \in DOMAIN cfg
              /\ ~Intact(cfg[e.dict_ref], e.path)

\* no two entries of one key are the same in level, depth, dict_ref and path
NoDuplicates(index) ==
    \A key \in DOMAIN index :
        \A i, j \in DOMAIN index[key] :
            i # j => ~_is_same_entry(index[key][i], index[key][j])

\* C27: in every reachable state of the Index no two entries of one key are
\* equal in (level, depth, dict_ref, path); add leaves the Index as it is
\* when the key has an identical entry, and appends one entry at the end of
\* the key's sequence when it has none.
C27_NoDuplicateEntries ==
    /\ NoDuplicates(ki.index)
    /\ \A key \in DOMAIN ki.index :
          \A i \in DOMAIN ki.index[key] :
              LET e == ki.index[key][i]
                  again == add(ki.index, key, e.level, e.depth, e.dict_ref,
                               e.path)
                  other == add(ki.index, key, e.level, e.depth + MaxDepth + 2,
                               e.dict_ref, e.path)
              IN  /\ again = ki.index
                  /\ other = [ki.index EXCEPT ![key] =
                                 Append(@, [e EXCEPT !.depth =
                                                e.depth + MaxDepth + 2])]

\* an unforced reload has built on top of the index of the sidecar: one key
\* has an entry that no file holds any more next to one that its file holds
C27_Witness ==
    /\ Answered("reload")
    /\ ~call.force
    /\ call.met = "ok"
    /\ \E key \in DOMAIN ki.index :
          \E i, j \in DOMAIN ki.index[key] :
              /\ ~Present(key, ki.index[key][i])
              /\ Present(key, ki.index[key][j])

\* the entries of the index are the keys of the mappings of the documents on
\* disk, one entry for each, at the path and depth of the key and the level
\* of the file
Registered(k, disk) ==
    /\ \A d \in DOMAIN disk :
          (~disk[d].bad /\ Truthy(disk[d].doc)) =>
              \A q \in KeysOf(disk[d].doc) :
                  /\ Last(q) \in DOMAIN k.index
                  /\ \E i \in DOMAIN k.index[Last(q)] :
                        k.index[Last(q)][i] =
                            [level |-> k.files[d].level, depth |-> Len(q) - 1,
                             dict_ref |-> d, path |-> Front(q)]
    /\ \A key \in DOMAIN k.index :
          \A i \in DOMAIN k.index[key] :
              LET e == k.index[key][i]
              IN  /\ e.depth = Len(e.path)
                  /\ e.dict_ref \in DOMAIN disk
                  /\ e.level = k.files[e.dict_ref].level
                  /\ e.path \o <<key>> \in KeysOf(disk[e.dict_ref].doc)

\* C28: a build registers every key of every mapping reachable through
\* nested mappings of a document, and nothing else: each entry has depth
\* equal to the length of its path and the level of its file; a key whose
\* value is a mapping is indexed at its own depth and its children at
\* depth+1 with the path extended by that key; what stands inside a
\* sequence is not indexed.
C28_BuildRegistersKeys ==
    (Answered("init") /\ ret.kind = "value") => Registered(ki, fs)

\* a build has indexed a file with a mapping inside a sequence and a mapping
\* two levels down
C28_Witness ==
    /\ Answered("init")
    /\ ret.kind = "value"
    /\ \E d \in DOMAIN fs : fs[d].doc = DocSeq
    /\ \E key \in DOMAIN ki.index :
          \E i \in DOMAIN ki.index[key] :
              /\ ki.index[key][i].depth = 2
              /\ fs[ki.index[key][i].dict_ref].doc = DocSeq

\* C29: the facade and the index engine resolve the configuration root from
\* the same setting: in every environment the directory whose existence the
\* facade checks at construction is the directory the KeyIndex scans and
\* writes its sidecar into.
C29_SameRoot ==
    Constructed => FacadeBase(env) = KeyIndexBase(env)

\* the resolver returns exactly the entry e of the key for some path filter,
\* level and depth, without forcefirst
Selectable(index, key, e) ==
    \E path \in FindPaths \cup {PathList(e.path)},
       level \in {-1, e.level}, depth \in {-1, e.depth} :
        _find(index, key, path, level, depth, FALSE, FALSE) = FoundEntry(e)

\* C30: every indexed entry is selectable: for each entry of the Index there
\* are a key, a path filter, a level and a depth for which the resolver,
\* without forcefirst, returns exactly that entry, also when the same key
\* stands at the same path in two files of the same level.
C30_EveryEntrySelectable ==
    Answered("_find") =>
        \A key \in DOMAIN ki.index :
            \A i \in DOMAIN ki.index[key] :
                Selectable(ki.index, key, ki.index[key][i])

====
